---- MODULE Spec2Model ----
(***************************************************************************)
(* A model of svg_manager.py (class SVGManager): extraction of <svg>       *)
(* blocks from an HTML string into placeholders, and their restoration.    *)
(*                                                                         *)
(* Strings are sequences of one-character strings.  Offsets are 0-based    *)
(* as in Python: At(s, i) is s[i], PySlice(s, a, b) is s[a:b].  The two    *)
(* regular expressions are written out as the matchers they denote.        *)
(***************************************************************************)
EXTENDS Integers, Sequences, FiniteSets, TLC

\* ------------------------------------------------------------------ bounds

\* Number of fragments a source document is assembled from.
MaxFrags == 3

\* Length of the text inside the long block.
FillerLen == 200

\* Indexes 0..IdxSpan, and as many on each side of the first index that
\* takes more digits than the identifier pads to.
IdxSpan == 2

\* Number of fragments a placeholder-bearing document is assembled from.
MaxMarks == 3

\* A small context window, next to 0 and the default one.
SmallCtx == 3

\* Default of SVGManager.__init__(context_chars).
DefaultCtx == 150

\* Truncation of a context inside a placeholder (context_before[:100]).
CtxTrunc == 100

\* Minimum width of the index in an identifier ({index:04d}).
IdWidth == 4

\* Length of the hash part of an identifier (hexdigest()[:8]).
HashLen == 8

\* ----------------------------------------------------------------- strings

Min2(a, b) == IF a <= b THEN a ELSE b

Max2(a, b) == IF a >= b THEN a ELSE b

MinOf(S) == CHOOSE x \in S : \A y \in S : x <= y

MaxOf(S) == CHOOSE x \in S : \A y \in S : y <= x

\* s[i], 0-based.
At(s, i) == s[i + 1]

\* Python's s[a:b] for integers a and b: a negative index counts from the
\* end, an index out of range is clipped, an empty range gives "".
PyIndex(s, i) == IF i < 0 THEN Max2(0, i + Len(s)) ELSE Min2(i, Len(s))

PySlice(s, a, b) == SubSeq(s, PyIndex(s, a) + 1, PyIndex(s, b))

\* \s of the re module, on the characters of the model.
IsSpace(c) == c \in {" ", "\n", "\t"}

\* re.IGNORECASE on the letters of the pattern.
Lower(c) ==
  CASE c = "S" -> "s"
    [] c = "V" -> "v"
    [] c = "G" -> "g"
    [] OTHER -> c

\* The literal lit stands in s at offset i.
LitAt(s, lit, i) ==
  /\ i >= 0
  /\ i + Len(lit) <= Len(s)
  /\ \A k \in 1..Len(lit) : s[i + k] = lit[k]

\* The same, ignoring case.
LitAtCI(s, lit, i) ==
  /\ i >= 0
  /\ i + Len(lit) <= Len(s)
  /\ \A k \in 1..Len(lit) : Lower(s[i + k]) = lit[k]

\* Offset of the first character at or after i that is no whitespace.
RECURSIVE SkipSpace(_, _)
SkipSpace(s, i) ==
  IF i < Len(s) /\ IsSpace(At(s, i)) THEN SkipSpace(s, i + 1) ELSE i

\* str.strip(): the text from its first to its last character that is no
\* whitespace.
Strip(s) ==
  LET solid == {k \in 1..Len(s) : ~IsSpace(s[k])}
  IN  IF solid = {} THEN <<>> ELSE SubSeq(s, MinOf(solid), MaxOf(solid))

\* re.sub(r'\s+', ' ', s): every run of whitespace becomes one space.  A
\* character stays unless it is whitespace that follows whitespace.
CollapseSpace(s) ==
  LET marked == [k \in 1..Len(s) |->
                   [char |-> IF IsSpace(s[k]) THEN " " ELSE s[k],
                    keep |-> ~IsSpace(s[k]) \/ k = 1 \/ ~IsSpace(s[k - 1])]]
      kept == SelectSeq(marked, LAMBDA m : m.keep)
  IN  [k \in 1..Len(kept) |-> kept[k].char]

\* ---------------------------------------------------------------- literals

LitSvgOpen == <<"<", "s", "v", "g">>

LitSvgClose == <<"<", "/", "s", "v", "g", ">">>

LitCommentOpen == <<"<", "!", "-", "-">>

LitCommentClose == <<"-", "-", ">">>

LitStart == <<"S", "V", "G", "_", "P", "L", "A", "C", "E", "H", "O", "L", "D", "E", "R", "_", "S", "T", "A", "R", "T", ":">>

LitEnd == <<"S", "V", "G", "_", "P", "L", "A", "C", "E", "H", "O", "L", "D", "E", "R", "_", "E", "N", "D", ":">>

\* The pieces of the f-string of _create_placeholder, between its fields.
PhStartHead == <<"<", "!", "-", "-", " ">> \o LitStart

PhBefore == <<" ", "-", "-", ">", "\n", "<", "!", "-", "-", " ", "C", "O", "N", "T", "E", "X", "T", "_", "B", "E", "F", "O", "R", "E", ":", " ">>

PhAfter == <<" ", "-", "-", ">", "\n", "<", "!", "-", "-", " ", "C", "O", "N", "T", "E", "X", "T", "_", "A", "F", "T", "E", "R", ":", " ">>

PhSpanHead == <<" ", "-", "-", ">", "\n", "<", "s", "p", "a", "n", " ", "c", "l", "a", "s", "s", "=", "\"", "s", "v", "g", "-", "p", "l", "a", "c", "e", "h", "o", "l", "d", "e", "r", "\"", " ", "d", "a", "t", "a", "-", "s", "v", "g", "-", "i", "d", "=", "\"">>

PhSpanTail == <<"\"", ">", "<", "/", "s", "p", "a", "n", ">", "\n", "<", "!", "-", "-", " ">> \o LitEnd

PhTail == <<" ", "-", "-", ">">>

\* ----------------------------------------------------------- SVG_PATTERN

\* r'<svg\s+[^>]*>.*?</svg>' with DOTALL and IGNORECASE, tried at offset i:
\* the end offset of the match, or -1.  [^>]* cannot pass a '>', so the
\* opening tag ends at the first '>' after the whitespace; .*? is lazy, so
\* the match ends at the first </svg> after the opening tag.
\* The opening tag r'<svg\s+[^>]*>' tried at offset i: the offset after its
\* '>', or -1.
OpenTagEnd(s, i) ==
  IF ~(LitAtCI(s, LitSvgOpen, i) /\ i + 4 < Len(s) /\ IsSpace(At(s, i + 4)))
  THEN -1
  ELSE LET gts == {g \in (i + 5)..(Len(s) - 1) : At(s, g) = ">"}
       IN  IF gts = {} THEN -1 ELSE MinOf(gts) + 1

\* r'</svg>' at offset q.
CloseAt(s, q) == At(s, q) = "<" /\ LitAtCI(s, LitSvgClose, q)

\* The same pattern with a greedy .* : the match runs to the last </svg>.
SvgMatchEndGreedy(s, i) ==
  LET t == OpenTagEnd(s, i)
  IN  IF t = -1 THEN -1
      ELSE LET cl == {q \in t..(Len(s) - 6) : CloseAt(s, q)}
           IN  IF cl = {} THEN -1 ELSE MaxOf(cl) + Len(LitSvgClose)

\* The same pattern with the end of the text accepted in place of </svg>.
SvgMatchEndOpen(s, i) ==
  LET t == OpenTagEnd(s, i)
  IN  IF t = -1 THEN -1
      ELSE LET cl == {q \in t..(Len(s) - 6) : CloseAt(s, q)}
           IN  IF cl = {} THEN Len(s) ELSE MinOf(cl) + Len(LitSvgClose)

SvgMatchEnd(s, i) ==
  LET t == OpenTagEnd(s, i)
  IN  IF t = -1 THEN -1
      ELSE LET cl == {q \in t..(Len(s) - 6) : CloseAt(s, q)}
           IN  IF cl = {} THEN -1 ELSE MinOf(cl) + Len(LitSvgClose)

\* The match of SVG_PATTERN at every offset of s that has one.  Whether the
\* pattern matches at an offset does not depend on where a search began.
SvgMatchesOf(s) ==
  LET tried == {[start |-> i, end |-> SvgMatchEnd(s, i)] :
                  i \in {i \in 0..(Len(s) - 1) : At(s, i) = "<"}}
  IN  {m \in tried : m.end # -1}

\* A search from pos finds the leftmost match at or after pos; the next
\* search resumes at the end of that match.
RECURSIVE ScanFrom(_, _)
ScanFrom(matches, pos) ==
  LET ahead == {m \in matches : m.start >= pos}
  IN  IF ahead = {} THEN <<>>
      ELSE LET m == CHOOSE m \in ahead : \A o \in ahead : m.start <= o.start
           IN  <<m>> \o ScanFrom(matches, m.end)

\* SVG_PATTERN.finditer(s): the matches from left to right.
SvgFinditer(s) == ScanFrom(SvgMatchesOf(s), 0)

\* ------------------------------------------------------- _generate_svg_id

HexDigits == <<"0", "1", "2", "3", "4", "5", "6", "7", "8", "9", "a", "b", "c", "d", "e", "f">>

DecDigits == <<"0", "1", "2", "3", "4", "5", "6", "7", "8", "9">>

\* A number for each character (str.encode()).
CharCode(c) ==
  CASE c = "<" -> 60
    [] c = ">" -> 62
    [] c = "/" -> 47
    [] c = " " -> 32
    [] c = "\n" -> 10
    [] c = "a" -> 97
    [] c = "g" -> 103
    [] c = "s" -> 115
    [] c = "v" -> 118
    [] c = "x" -> 120
    [] c = "y" -> 121
    [] c = "G" -> 71
    [] c = "S" -> 83
    [] c = "V" -> 86
    [] OTHER -> 1

\* hashlib.md5(content).hexdigest()[:8], as a deterministic digest of the
\* content with HashLen hexadecimal digits.  MD5 itself is not computed: the
\* digest here is a position-weighted checksum of content[lo..hi], so that
\* equal contents have equal digests and different contents may collide, as
\* with a real digest.
RECURSIVE Digest(_, _, _)
Digest(content, lo, hi) ==
  IF lo > hi THEN 7
  ELSE IF lo = hi THEN (CharCode(content[lo]) * (1 + (lo % 5))) % 256
  ELSE LET mid == (lo + hi) \div 2
       IN  (Digest(content, lo, mid) + Digest(content, mid + 1, hi)) % 256

RECURSIVE HexOf(_, _)
HexOf(n, width) ==
  IF width = 0 THEN <<>>
  ELSE HexOf(n \div 16, width - 1) \o <<HexDigits[(n % 16) + 1]>>

Md5Hex8(content) == HexOf(Digest(content, 1, Len(content)), HashLen)

\* str(n) for n >= 0.
RECURSIVE DecOf(_)
DecOf(n) ==
  IF n < 10 THEN <<DecDigits[n + 1]>>
  ELSE DecOf(n \div 10) \o <<DecDigits[(n % 10) + 1]>>

\* A fixed-width rendering: zeros in front up to the width, and only the
\* last width digits of a longer number.
RECURSIVE ZeroPadCut(_, _)
ZeroPadCut(digits, width) ==
  IF Len(digits) > width THEN SubSeq(digits, Len(digits) - width + 1, Len(digits))
  ELSE IF Len(digits) = width THEN digits
  ELSE ZeroPadCut(<<"0">> \o digits, width)

\* f"{n:04d}": zeros in front up to the width, never cut.
RECURSIVE ZeroPad(_, _)
ZeroPad(digits, width) ==
  IF Len(digits) >= width THEN digits ELSE ZeroPad(<<"0">> \o digits, width)

_generate_svg_id(svg_content, index) ==
  ZeroPad(DecOf(index), IdWidth) \o <<"_">> \o Md5Hex8(svg_content)

\* ------------------------------------------------------- _extract_context

\* _extract_context with the start of the window not clipped at 0.
_extract_context_unclipped(html, start_pos, end_pos, ctx) ==
  LET context_before == Strip(PySlice(html, start_pos - ctx, start_pos))
      context_after_end == Min2(Len(html), end_pos + ctx)
      context_after == Strip(PySlice(html, end_pos, context_after_end))
  IN  [before |-> CollapseSpace(context_before),
       after |-> CollapseSpace(context_after)]

_extract_context(html, start_pos, end_pos, ctx) ==
  LET context_before_start == Max2(0, start_pos - ctx)
      context_before == Strip(PySlice(html, context_before_start, start_pos))
      context_after_end == Min2(Len(html), end_pos + ctx)
      context_after == Strip(PySlice(html, end_pos, context_after_end))
  IN  [before |-> CollapseSpace(context_before),
       after |-> CollapseSpace(context_after)]

\* ----------------------------------------------------- _create_placeholder

_create_placeholder(svg_id, context_before, context_after) ==
  PhStartHead \o svg_id \o PhBefore \o PySlice(context_before, 0, CtxTrunc)
    \o PhAfter \o PySlice(context_after, 0, CtxTrunc)
    \o PhSpanHead \o svg_id \o PhSpanTail \o svg_id \o PhTail

\* ---------------------------------------------------- PLACEHOLDER_PATTERN

NoMatch == [end |-> -1, id |-> <<>>, after |-> -1]

\* [a-f0-9_]
IsIdChar(c) ==
  c \in {"a", "b", "c", "d", "e", "f", "_",
         "0", "1", "2", "3", "4", "5", "6", "7", "8", "9"}

\* Offset after the longest run of identifier characters that starts at i.
RECURSIVE IdRunEnd(_, _)
IdRunEnd(s, i) ==
  IF i < Len(s) /\ IsIdChar(At(s, i)) THEN IdRunEnd(s, i + 1) ELSE i

\* r'<!--\s*SVG_PLACEHOLDER_START:([a-f0-9_]+)\s*-->' tried at offset i:
\* group 1 and the offset after the marker.  The group is the whole run of
\* identifier characters: what follows it must be whitespace or '-->'.
StartMarkerAt(s, i) ==
  IF ~LitAt(s, LitCommentOpen, i) THEN NoMatch
  ELSE LET j == SkipSpace(s, i + Len(LitCommentOpen))
       IN  IF ~LitAt(s, LitStart, j) THEN NoMatch
           ELSE LET a == j + Len(LitStart)
                    b == IdRunEnd(s, a)
                    k == SkipSpace(s, b)
                IN  IF b > a /\ LitAt(s, LitCommentClose, k)
                    THEN [end |-> -1, id |-> PySlice(s, a, b),
                          after |-> k + Len(LitCommentClose)]
                    ELSE NoMatch

\* The end marker without the back-reference: any identifier ends the
\* placeholder.
EndMarkerEndAnyId(s, q, id) ==
  IF ~LitAt(s, LitCommentOpen, q) THEN -1
  ELSE LET j == SkipSpace(s, q + Len(LitCommentOpen))
       IN  IF ~LitAt(s, LitEnd, j) THEN -1
           ELSE LET a == j + Len(LitEnd)
                    b == IdRunEnd(s, a)
                    k == SkipSpace(s, b)
                IN  IF b > a /\ LitAt(s, LitCommentClose, k)
                    THEN k + Len(LitCommentClose)
                    ELSE -1

\* r'<!--\s*SVG_PLACEHOLDER_END:\1\s*-->' tried at offset q with group 1 = id:
\* the offset after the marker, or -1.
EndMarkerEnd(s, q, id) ==
  IF ~LitAt(s, LitCommentOpen, q) THEN -1
  ELSE LET j == SkipSpace(s, q + Len(LitCommentOpen))
       IN  IF ~LitAt(s, LitEnd, j) THEN -1
           ELSE LET a == j + Len(LitEnd)
                IN  IF ~LitAt(s, id, a) THEN -1
                    ELSE LET k == SkipSpace(s, a + Len(id))
                         IN  IF LitAt(s, LitCommentClose, k)
                             THEN k + Len(LitCommentClose)
                             ELSE -1

\* PLACEHOLDER_PATTERN tried at offset i: start marker, lazy .*? (DOTALL),
\* the first end marker that repeats group 1.
PlaceholderMatchAt(s, i) ==
  LET sm == StartMarkerAt(s, i)
  IN  IF sm.after = -1 THEN NoMatch
      ELSE LET ends == {q \in sm.after..(Len(s) - 1) :
                          At(s, q) = "<" /\ EndMarkerEnd(s, q, sm.id) # -1}
           IN  IF ends = {} THEN NoMatch
               ELSE [end |-> EndMarkerEnd(s, MinOf(ends), sm.id), id |-> sm.id,
                     after |-> sm.after]

\* The match of PLACEHOLDER_PATTERN at every offset of s that has one.
PlaceholderMatchesOf(s) ==
  LET tried == {[start |-> i, m |-> PlaceholderMatchAt(s, i)] :
                  i \in {i \in 0..(Len(s) - 1) : At(s, i) = "<"}}
  IN  {[start |-> t.start, end |-> t.m.end, id |-> t.m.id] :
         t \in {t \in tried : t.m.end # -1}}

\* The matches of PLACEHOLDER_PATTERN that sub() visits, left to right.
PlaceholderFinditer(s) == ScanFrom(PlaceholderMatchesOf(s), 0)

\* ------------------------------------------------------------ restore_svgs

\* svg_map = {svg_data['id']: svg_data['svg_content'] for ...}: a later
\* record with the same id replaces an earlier one.
InSvgMap(svg_data_list, svg_id) ==
  \E n \in 1..Len(svg_data_list) : svg_data_list[n].id = svg_id

SvgMapGet(svg_data_list, svg_id) ==
  LET n == CHOOSE n \in 1..Len(svg_data_list) :
             /\ svg_data_list[n].id = svg_id
             /\ \A m \in (n + 1)..Len(svg_data_list) : svg_data_list[m].id # svg_id
  IN  svg_data_list[n].svg_content

\* replace_placeholder that never substitutes: the match itself in both
\* branches.
replace_placeholder_keep(s, m, svg_data_list) == PySlice(s, m.start, m.end)

\* replace_placeholder that drops a placeholder it has no record for.
replace_placeholder_drop(s, m, svg_data_list) ==
  IF InSvgMap(svg_data_list, m.id)
  THEN SvgMapGet(svg_data_list, m.id)
  ELSE <<>>

\* replace_placeholder(match): the recorded content, or the match itself.
replace_placeholder(s, m, svg_data_list) ==
  IF InSvgMap(svg_data_list, m.id)
  THEN SvgMapGet(svg_data_list, m.id)
  ELSE PySlice(s, m.start, m.end)

\* The warnings replace_placeholder prints, in order.
RECURSIVE WarningsOf(_, _)
WarningsOf(ms, svg_data_list) ==
  IF ms = <<>> THEN <<>>
  ELSE (IF InSvgMap(svg_data_list, Head(ms).id) THEN <<>> ELSE <<Head(ms).id>>)
         \o WarningsOf(Tail(ms), svg_data_list)

\* PLACEHOLDER_PATTERN.sub(replace_placeholder, s): the text between the
\* matches is copied, each match is replaced.
RECURSIVE SubFrom(_, _, _, _)
SubFrom(s, pos, ms, svg_data_list) ==
  IF ms = <<>> THEN PySlice(s, pos, Len(s))
  ELSE PySlice(s, pos, Head(ms).start)
         \o replace_placeholder(s, Head(ms), svg_data_list)
         \o SubFrom(s, Head(ms).end, Tail(ms), svg_data_list)

\* restore_svgs: the restored document, and what was printed on the way.
restore_svgs(html, svg_data_list) ==
  LET ms == PlaceholderFinditer(html)
  IN  [html |-> SubFrom(html, 0, ms, svg_data_list),
       warnings |-> WarningsOf(ms, svg_data_list)]

\* ----------------------------------------------------------- get_svg_stats

RECURSIVE SumOf(_)
SumOf(sizes) == IF sizes = <<>> THEN 0 ELSE Head(sizes) + SumOf(Tail(sizes))

RECURSIVE MinSeq(_)
MinSeq(sizes) ==
  IF Len(sizes) = 1 THEN sizes[1] ELSE Min2(Head(sizes), MinSeq(Tail(sizes)))

RECURSIVE MaxSeq(_)
MaxSeq(sizes) ==
  IF Len(sizes) = 1 THEN sizes[1] ELSE Max2(Head(sizes), MaxSeq(Tail(sizes)))

\* get_svg_stats without its test for an empty list: the average of no
\* sizes is a division by zero.
get_svg_stats_unguarded(svg_data_list) ==
  LET sizes == [n \in 1..Len(svg_data_list) |-> Len(svg_data_list[n].svg_content)]
  IN  [total |-> Len(svg_data_list),
       avg_size |-> [num |-> SumOf(sizes), den |-> Len(sizes)],
       total_size |-> SumOf(sizes)]

\* The dictionary get_svg_stats returns.  avg_size is the quotient
\* sum(sizes) / len(sizes), kept as its numerator and denominator.
get_svg_stats(svg_data_list) ==
  IF svg_data_list = <<>> THEN [total |-> 0]
  ELSE LET sizes == [n \in 1..Len(svg_data_list) |-> Len(svg_data_list[n].svg_content)]
       IN  [total |-> Len(svg_data_list),
            min_size |-> MinSeq(sizes),
            max_size |-> MaxSeq(sizes),
            avg_size |-> [num |-> SumOf(sizes), den |-> Len(sizes)],
            total_size |-> SumOf(sizes)]

\* ------------------------------------------------------------- the inputs

FragOpen == <<"<", "s", "v", "g", " ", "a", ">">>

FragClose == <<"<", "/", "S", "V", "G", ">">>

FragCut == <<"<", "s", "v", "g", " ", "a">>

FragText == <<"x">>

FragWs == <<" ", "\n">>

\* A block longer than its placeholder and than the context window.
FragLong == FragOpen \o [n \in 1..FillerLen |-> "y"] \o LitSvgClose

\* A whole block.
FragBlock == <<"<", "s", "v", "g", " ", "a", ">", "x", "<", "/", "s", "v", "g", ">">>

Frags == {FragOpen, FragClose, FragCut, FragText, FragWs, FragLong, FragBlock}

\* The documents assembled from at most n fragments.
RECURSIVE DocsOf(_)
DocsOf(n) ==
  IF n = 0 THEN {<<>>}
  ELSE LET shorter == DocsOf(n - 1)
       IN  shorter \cup {d \o f : d \in shorter, f \in Frags}

Docs == DocsOf(MaxFrags)

CtxChoices == {0, SmallCtx, DefaultCtx}

\* --------------------------------------------------------------- the state

VARIABLES
  pc,              \* "ready", "extracting", "extracted", "restored", "stats"
  html_content,    \* the argument of extract_svgs
  matches,         \* extract_svgs: what SVG_PATTERN.finditer(html_content) yields
  context_chars,   \* self.context_chars
  modified_html,   \* extract_svgs: the working document
  offset,          \* extract_svgs: the cumulative offset
  svg_data_list,   \* extract_svgs: the records so far
  replaced,        \* the text the last iteration cut out of modified_html
  archive,         \* the svg_data_list handed to restore_svgs
  restored_html,   \* the result of restore_svgs
  warnings,        \* the identifiers restore_svgs warned about
  stats,           \* the result of get_svg_stats
  id_args,         \* the (svg_content, index) of two calls of _generate_svg_id
  id_out           \* what the two calls returned

vars == <<pc, html_content, matches, context_chars, modified_html, offset, svg_data_list,
          replaced, archive, restored_html, warnings, stats, id_args, id_out>>

NoStats == [total |-> -1]

Init ==
  /\ pc = "ready"
  /\ html_content \in Docs
  /\ matches = <<>>
  /\ context_chars \in CtxChoices
  /\ modified_html = <<>>
  /\ offset = 0
  /\ svg_data_list = <<>>
  /\ replaced = <<>>
  /\ archive = <<>>
  /\ restored_html = <<>>
  /\ warnings = <<>>
  /\ stats = NoStats
  /\ id_args = <<>>
  /\ id_out = <<>>

\* offset += len(placeholder) - len(svg_content), and the update without the
\* length of the block taken off.
NextOffsetNoBlock(off, placeholder, svg_content) == off + Len(placeholder)

NextOffset(off, placeholder, svg_content) ==
  off + Len(placeholder) - Len(svg_content)

\* extract_svgs, up to the loop.
ExtractBegin ==
  /\ pc = "ready"
  /\ pc' = "extracting"
  /\ matches' = SvgFinditer(html_content)
  /\ modified_html' = html_content
  /\ offset' = 0
  /\ svg_data_list' = <<>>
  /\ UNCHANGED <<id_args, id_out, html_content, context_chars, replaced, archive, restored_html,
                 warnings, stats>>

\* One iteration of the loop of extract_svgs, on the next match of finditer.
ExtractIter ==
  /\ pc = "extracting"
  /\ LET index == Len(svg_data_list)
     IN  /\ index < Len(matches)
         /\ LET match == matches[index + 1]
                svg_content == PySlice(html_content, match.start, match.end)
                start_pos == match.start
                end_pos == match.end
                adjusted_start == start_pos + offset
                adjusted_end == end_pos + offset
                svg_id == _generate_svg_id(svg_content, index)
                context == _extract_context(html_content, start_pos, end_pos,
                                            context_chars)
                placeholder == _create_placeholder(svg_id, context.before,
                                                   context.after)
            IN  /\ modified_html' =
                     PySlice(modified_html, 0, adjusted_start) \o placeholder
                       \o PySlice(modified_html, adjusted_end, Len(modified_html))
                /\ offset' = NextOffset(offset, placeholder, svg_content)
                /\ replaced' = PySlice(modified_html, adjusted_start, adjusted_end)
                /\ svg_data_list' = Append(svg_data_list,
                     [id |-> svg_id, index |-> index, svg_content |-> svg_content,
                      context_before |-> context.before,
                      context_after |-> context.after,
                      original_position |-> [start |-> start_pos, end |-> end_pos]])
  /\ UNCHANGED <<id_args, id_out, pc, html_content, matches, context_chars, archive, restored_html,
                 warnings, stats>>

\* extract_svgs returns (modified_html, svg_data_list).
ExtractReturn ==
  /\ pc = "extracting"
  /\ Len(svg_data_list) = Len(matches)
  /\ pc' = "extracted"
  /\ UNCHANGED <<id_args, id_out, html_content, matches, context_chars,
                 modified_html, offset, svg_data_list,
                 replaced, archive, restored_html, warnings, stats>>

\* The list without its n-th record (n = 0: the whole list).
Without(list, n) ==
  IF n = 0 THEN list
  ELSE SubSeq(list, 1, n - 1) \o SubSeq(list, n + 1, Len(list))

\* restore_svgs(modified_html, archive), the archive being the extracted
\* records or the records with one of them missing.
Restore ==
  /\ pc = "extracted"
  /\ \E n \in 0..Len(svg_data_list) :
       /\ archive' = Without(svg_data_list, n)
       /\ LET restored == restore_svgs(modified_html, Without(svg_data_list, n))
          IN  /\ restored_html' = restored.html
              /\ warnings' = restored.warnings
  /\ pc' = "restored"
  /\ UNCHANGED <<id_args, id_out, html_content, matches, context_chars,
                 modified_html, offset, svg_data_list,
                 replaced, stats>>

\* get_svg_stats(svg_data_list).
Stats ==
  /\ pc = "extracted"
  /\ stats' = get_svg_stats(svg_data_list)
  /\ pc' = "stats"
  /\ UNCHANGED <<id_args, id_out, html_content, matches, context_chars,
                 modified_html, offset, svg_data_list,
                 replaced, archive, restored_html, warnings>>

Next == ExtractBegin \/ ExtractIter \/ ExtractReturn \/ Restore \/ Stats

Spec == Init /\ [][Next]_vars

\* ------------------------------------------- _generate_svg_id, called alone

RECURSIVE Pow10(_)
Pow10(n) == IF n = 0 THEN 1 ELSE 10 * Pow10(n - 1)

\* The indexes the two calls are made with.
IdIndexes ==
  (0..IdxSpan) \cup ((Pow10(IdWidth) - IdxSpan)..(Pow10(IdWidth) + IdxSpan))

\* The contents the two calls are made with.
IdContents == {FragBlock, FragOpen \o LitSvgClose, FragOpen \o FragClose}

InitId ==
  /\ pc = "ids"
  /\ id_args \in {<<[svg_content |-> c1, index |-> i], [svg_content |-> c2, index |-> j]>> :
                    <<c1, c2, i, j>> \in {t \in IdContents \X IdContents \X IdIndexes \X IdIndexes :
                                            t[3] < t[4]}}
  /\ id_out = <<>>
  /\ html_content = <<>>
  /\ matches = <<>>
  /\ context_chars = DefaultCtx
  /\ modified_html = <<>>
  /\ offset = 0
  /\ svg_data_list = <<>>
  /\ replaced = <<>>
  /\ archive = <<>>
  /\ restored_html = <<>>
  /\ warnings = <<>>
  /\ stats = NoStats

\* The identifiers of two iterations of the loop of extract_svgs, the
\* enumerate() of which gives each iteration an index of its own.
GenerateIds ==
  /\ pc = "ids"
  /\ pc' = "ids_done"
  /\ id_out' = [n \in 1..2 |->
                  _generate_svg_id(id_args[n].svg_content, id_args[n].index)]
  /\ UNCHANGED <<id_args, html_content, matches, context_chars, modified_html, offset,
                 svg_data_list, replaced, archive, restored_html, warnings, stats>>

NextId == ExtractBegin \/ ExtractIter \/ ExtractReturn \/ GenerateIds

\* Extraction, and _generate_svg_id at indexes no document of the model
\* reaches.
SpecId == (Init \/ InitId) /\ [][NextId]_vars

\* ----------------------------------- restore_svgs on a document as loaded

MarkStartA == PhStartHead \o <<"0", "a", " ", "-", "-", ">">>

MarkEndA == <<"<", "!", "-", "-", " ">> \o LitEnd \o <<"0", "a", " ", "-", "-", ">">>

\* Markers without whitespace inside.
MarkStartB == <<"<", "!", "-", "-">> \o LitStart \o <<"0", "b", "-", "-", ">">>

MarkEndB == <<"<", "!", "-", "-">> \o LitEnd \o <<"0", "b", "-", "-", ">">>

\* An end marker whose identifier begins with that of MarkStartA.
MarkEndAB == <<"<", "!", "-", "-", " ">> \o LitEnd \o <<"0", "a", "b", " ", "-", "-", ">">>

Marks == {MarkStartA, MarkEndA, MarkStartB, MarkEndB, MarkEndAB, FragText}

RECURSIVE MarkDocsOf(_)
MarkDocsOf(n) ==
  IF n = 0 THEN {<<>>}
  ELSE LET shorter == MarkDocsOf(n - 1)
       IN  shorter \cup {d \o f : d \in shorter, f \in Marks}

RecordA == [id |-> <<"0", "a">>, index |-> 0, svg_content |-> FragBlock,
            context_before |-> <<>>, context_after |-> <<>>,
            original_position |-> [start |-> 0, end |-> Len(FragBlock)]]

RecordB == [id |-> <<"0", "b">>, index |-> 1, svg_content |-> FragOpen \o FragClose,
            context_before |-> <<>>, context_after |-> <<>>,
            original_position |-> [start |-> 20, end |-> 33]]

Archives == {<<>>, <<RecordA>>, <<RecordB>>, <<RecordA, RecordB>>}

\* The restore command: a document and an archive as read from their files.
InitLoaded ==
  /\ pc = "loaded"
  /\ modified_html \in MarkDocsOf(MaxMarks)
  /\ archive \in Archives
  /\ html_content = <<>>
  /\ matches = <<>>
  /\ context_chars = DefaultCtx
  /\ offset = 0
  /\ svg_data_list = <<>>
  /\ replaced = <<>>
  /\ restored_html = <<>>
  /\ warnings = <<>>
  /\ stats = NoStats
  /\ id_args = <<>>
  /\ id_out = <<>>

\* restore_svgs(modified_html, archive).
RestoreLoaded ==
  /\ pc = "loaded"
  /\ LET restored == restore_svgs(modified_html, archive)
     IN  /\ restored_html' = restored.html
         /\ warnings' = restored.warnings
  /\ pc' = "restored_loaded"
  /\ UNCHANGED <<id_args, id_out, html_content, matches, context_chars, modified_html,
                 offset, svg_data_list, replaced, archive, stats>>

NextLoaded == RestoreLoaded

SpecLoaded == InitLoaded /\ [][NextLoaded]_vars

\* ------------------------------------------------------------------ claims

\* The placeholder extract_svgs wrote for a record.
PlaceholderOf(rec) ==
  _create_placeholder(rec.id, rec.context_before, rec.context_after)

\* The document doc with the span of the k-th record, for every k from
\* first on, replaced by pieces[k], and the text between the spans kept.
RECURSIVE AssembleFrom(_, _, _, _, _)
AssembleFrom(doc, pos, recs, pieces, first) ==
  IF first > Len(recs) THEN PySlice(doc, pos, Len(doc))
  ELSE PySlice(doc, pos, recs[first].original_position.start)
         \o pieces[first]
         \o AssembleFrom(doc, recs[first].original_position.end, recs, pieces,
                         first + 1)

Assemble(doc, recs, pieces) == AssembleFrom(doc, 0, recs, pieces, 1)

SpanLen(rec) == rec.original_position.end - rec.original_position.start

\* C1 (round trip): once restore_svgs has run on the document and all the
\* records that extract_svgs returned, its result is the source document,
\* character for character.
RoundTrip ==
  (pc = "restored" /\ archive = svg_data_list) => restored_html = html_content

\* C1 witness: a document with text around two blocks went through
\* extraction and came back.
RoundTripWitness ==
  /\ pc = "restored"
  /\ archive = svg_data_list
  /\ Len(svg_data_list) >= 2
  /\ svg_data_list[1].original_position.start > 0
  /\ modified_html # html_content
  /\ restored_html = html_content

\* C2 (missing identifier): when the archive lacks one record, the result
\* of restore_svgs is the source document with that block's placeholder in
\* the place of the block, as extract_svgs wrote it, every other block back
\* in its place, and one warning, naming the missing identifier.
MissingIdResilience ==
  (pc = "restored" /\ Len(archive) < Len(svg_data_list)) =>
    LET n == CHOOSE n \in 1..Len(svg_data_list) :
               archive = Without(svg_data_list, n)
        pieces == [k \in 1..Len(svg_data_list) |->
                     IF k = n THEN PlaceholderOf(svg_data_list[k])
                     ELSE svg_data_list[k].svg_content]
    IN  /\ restored_html = Assemble(html_content, svg_data_list, pieces)
        /\ warnings = <<svg_data_list[n].id>>

\* C2 witness: of three blocks the middle one is missing from the archive.
MissingIdWitness ==
  /\ pc = "restored"
  /\ Len(svg_data_list) = 3
  /\ archive = Without(svg_data_list, 2)
  /\ warnings = <<svg_data_list[2].id>>
  /\ restored_html # html_content

\* C10 (offset bookkeeping): during and after the loop of extract_svgs the
\* offset is the sum, over the spans done, of placeholder length minus
\* span length; the text the last iteration cut out of the working
\* document is the text of its span; and the working document is the source
\* document with the spans done replaced by their placeholders in one pass.
OffsetBookkeeping ==
  pc \in {"extracting", "extracted"} =>
    LET k == Len(svg_data_list)
        phs == [i \in 1..k |-> PlaceholderOf(svg_data_list[i])]
    IN  /\ offset = SumOf([i \in 1..k |-> Len(phs[i]) - SpanLen(svg_data_list[i])])
        /\ k > 0 =>
             replaced = PySlice(html_content,
                                svg_data_list[k].original_position.start,
                                svg_data_list[k].original_position.end)
        /\ modified_html = Assemble(html_content, svg_data_list, phs)

\* C10 witness: the loop ended after two spans, one longer and one shorter
\* than its placeholder.
OffsetWitness ==
  /\ pc = "extracted"
  /\ Len(svg_data_list) = 2
  /\ \E i, j \in 1..2 :
       /\ Len(PlaceholderOf(svg_data_list[i])) < SpanLen(svg_data_list[i])
       /\ Len(PlaceholderOf(svg_data_list[j])) > SpanLen(svg_data_list[j])

\* Where the placeholder of the k-th record begins in the document that
\* extract_svgs returns.
PlaceholderStart(k) ==
  svg_data_list[k].original_position.start
    + SumOf([i \in 1..(k - 1) |->
               Len(PlaceholderOf(svg_data_list[i])) - SpanLen(svg_data_list[i])])

\* C3 (second pass), as claimed: in the document that extract_svgs returns,
\* no match of SVG_PATTERN touches a placeholder.
SecondPassInert ==
  pc = "extracted" =>
    \A k \in 1..Len(svg_data_list) :
      LET from == PlaceholderStart(k)
          to == from + Len(PlaceholderOf(svg_data_list[k]))
          found == SvgFinditer(modified_html)
      IN  \A n \in 1..Len(found) : found[n].end <= from \/ found[n].start >= to

\* The opening tags that proper nesting leaves without a closing marker: the
\* tags and closing markers are read from left to right, and a closing marker
\* closes the last opening tag still open.
TagEvents(s) ==
  {i \in 0..(Len(s) - 1) : At(s, i) = "<" /\ (OpenTagEnd(s, i) # -1 \/ CloseAt(s, i))}

RECURSIVE UnclosedFrom(_, _, _)
UnclosedFrom(s, pos, open) ==
  LET next == {i \in TagEvents(s) : i >= pos}
  IN  IF next = {} THEN open
      ELSE LET i == MinOf(next)
           IN  IF OpenTagEnd(s, i) # -1
               THEN UnclosedFrom(s, OpenTagEnd(s, i), Append(open, i))
               ELSE UnclosedFrom(s, i + Len(LitSvgClose),
                                 SubSeq(open, 1, Len(open) - 1))

Unclosed(s) == LET open == UnclosedFrom(s, 0, <<>>)
               IN  {open[n] : n \in 1..Len(open)}

InsideSpan(p, rec) ==
  rec.original_position.start <= p /\ p < rec.original_position.end

\* C4, as claimed: an opening tag without a closing marker of its own is
\* in no span, whatever follows it.
UnterminatedOriginal ==
  pc = "extracted" =>
    \A p \in Unclosed(html_content) :
      \A k \in 1..Len(svg_data_list) : ~InsideSpan(p, svg_data_list[k])

\* C4 (unterminated block), amended: an opening tag with no closing marker
\* anywhere after its first character is in no span, and the document that
\* extract_svgs returns holds its text unchanged.
UnterminatedNeverExtracted ==
  pc = "extracted" =>
    \A p \in 0..(Len(html_content) - 1) :
      (/\ At(html_content, p) = "<"
       /\ OpenTagEnd(html_content, p) # -1
       /\ \A q \in p..(Len(html_content) - 1) : ~CloseAt(html_content, q)) =>
        LET t == OpenTagEnd(html_content, p)
        IN  /\ \A k \in 1..Len(svg_data_list) :
                 \/ svg_data_list[k].original_position.end <= p
                 \/ svg_data_list[k].original_position.start >= t
            /\ PySlice(modified_html, p + offset, t + offset)
                 = PySlice(html_content, p, t)

\* C4 witness: a block was extracted, and after it stands an opening tag
\* that nothing closes.
UnterminatedWitness ==
  /\ pc = "extracted"
  /\ Len(svg_data_list) >= 1
  /\ \E p \in 1..(Len(html_content) - 1) :
       /\ OpenTagEnd(html_content, p) # -1
       /\ \A q \in p..(Len(html_content) - 1) : ~CloseAt(html_content, q)
       /\ svg_data_list[1].original_position.end <= p

NonSpace(s) == SelectSeq(s, LAMBDA c : ~IsSpace(c))

\* C7 (context boundaries): each context of each record is at most
\* context_chars long and holds, whitespace aside, the characters of the
\* source document right before the span (as many as there are, at most
\* context_chars), respectively right after it.
ContextBoundarySafety ==
  pc \in {"extracting", "extracted"} =>
    \A k \in 1..Len(svg_data_list) :
      LET rec == svg_data_list[k]
          start == rec.original_position.start
          end == rec.original_position.end
          nb == Min2(context_chars, start)
          na == Min2(context_chars, Len(html_content) - end)
      IN  /\ Len(rec.context_before) <= context_chars
          /\ Len(rec.context_after) <= context_chars
          /\ NonSpace(rec.context_before)
               = NonSpace(SubSeq(html_content, start - nb + 1, start))
          /\ NonSpace(rec.context_after)
               = NonSpace(SubSeq(html_content, end + 1, end + na))

\* C7 witness: a span at offset 0, a span at the end of the document, and a
\* context that fills the whole window.
ContextWitness ==
  /\ pc = "extracted"
  /\ context_chars > 0
  /\ \E k \in 1..Len(svg_data_list) : svg_data_list[k].original_position.start = 0
  /\ \E k \in 1..Len(svg_data_list) :
       svg_data_list[k].original_position.end = Len(html_content)
  /\ \E k \in 1..Len(svg_data_list) :
       Len(svg_data_list[k].context_before) = context_chars

\* What C8 says of every span; inner(rec) is where a closing marker may not
\* begin.
SpansOrdered(inner(_)) ==
  \A k \in 1..Len(svg_data_list) :
    LET rec == svg_data_list[k]
        start == rec.original_position.start
        end == rec.original_position.end
    IN  /\ rec.index = k - 1
        /\ start < end
        /\ k > 1 =>
             /\ svg_data_list[k - 1].original_position.start < start
             /\ svg_data_list[k - 1].original_position.end <= start
        /\ OpenTagEnd(html_content, start) # -1
        /\ CloseAt(html_content, end - Len(LitSvgClose))
        /\ \A q \in inner(rec) : ~CloseAt(html_content, q)
        /\ rec.svg_content = SubSeq(html_content, start + 1, end)

\* C8, as claimed: no closing marker lies strictly inside a span before its
\* end.
LocatorOrderingOriginal ==
  pc \in {"extracting", "extracted"} =>
    SpansOrdered(LAMBDA rec : (rec.original_position.start + 1)
                                ..(rec.original_position.end - Len(LitSvgClose) - 1))

\* C8 (locator ordering), amended: the spans are in discovery order, their
\* starts ascend, they do not overlap, each begins with an opening tag and
\* ends with the first closing marker after that tag (no closing marker
\* begins between the end of the opening tag and the one that ends the
\* span), and each record's content is the text of its span.
LocatorOrdering ==
  pc \in {"extracting", "extracted"} =>
    SpansOrdered(LAMBDA rec : OpenTagEnd(html_content, rec.original_position.start)
                                ..(rec.original_position.end - Len(LitSvgClose) - 1))

\* C8 witness: three spans, each beginning where the one before it ends.
LocatorWitness ==
  /\ pc = "extracted"
  /\ Len(svg_data_list) = 3
  /\ \A k \in 2..3 : svg_data_list[k].original_position.start
                       = svg_data_list[k - 1].original_position.end

RECURSIVE AllContent(_)
AllContent(recs) ==
  IF recs = <<>> THEN <<>> ELSE Head(recs).svg_content \o AllContent(Tail(recs))

\* C9 (statistics): of no records get_svg_stats returns total = 0 and nothing
\* else (no minimum, maximum or average is computed); of some records it
\* returns their number, the length of all their contents together, a
\* minimum not above the maximum, and an average over their number.
EmptySafeStats ==
  pc = "stats" =>
    IF svg_data_list = <<>>
    THEN stats = [total |-> 0]
    ELSE /\ stats.total = Len(svg_data_list)
         /\ stats.total_size = Len(AllContent(svg_data_list))
         /\ stats.min_size <= stats.max_size
         /\ stats.avg_size = [num |-> stats.total_size, den |-> stats.total]

\* C9 witness: the statistics of an extraction that found nothing.
EmptyStatsWitness ==
  /\ pc = "stats"
  /\ svg_data_list = <<>>
  /\ html_content # <<>>
  /\ stats.total = 0

\* C5 (identifier uniqueness): the identifiers of the records of one
\* extraction are pairwise distinct, and so are the identifiers of any two
\* different indexes, equal contents and indexes of five digits included;
\* an identifier is the index in at least IdWidth digits, an underscore and
\* HashLen characters of digest.
IdentifierUniqueness ==
  /\ \A k, m \in 1..Len(svg_data_list) :
       k # m => svg_data_list[k].id # svg_data_list[m].id
  /\ pc = "ids_done" =>
       /\ id_out[1] # id_out[2]
       /\ \A n \in 1..2 :
            LET digits == Len(id_out[n]) - HashLen - 1
            IN  /\ digits >= IdWidth
                /\ id_args[n].index < Pow10(IdWidth) => digits = IdWidth
                /\ id_out[n][digits + 1] = "_"
                /\ \A d \in 1..digits : id_out[n][d] \in {DecDigits[x] : x \in 1..10}

\* C5 witness: two calls with the same content, one with a five-digit index
\* that ends in the digits of the other.
IdentifierWitness ==
  /\ pc = "ids_done"
  /\ id_args[1].svg_content = id_args[2].svg_content
  /\ id_args[1].index = 1
  /\ id_args[2].index = Pow10(IdWidth) + 1
  /\ id_out[1] # id_out[2]

\* The characters of s from offset a up to offset b are all whitespace,
\* respectively all identifier characters.
AllSpace(s, a, b) == \A k \in a..(b - 1) : IsSpace(At(s, k))

AllIdChars(s, a, b) == \A k \in a..(b - 1) : IsIdChar(At(s, k))

\* The start markers of s, read off the text of the pattern: '<!--', any
\* whitespace, 'SVG_PLACEHOLDER_START:', one or more identifier characters,
\* any whitespace, '-->'.
StartMarkersOf(s) ==
  UNION {
    UNION {
      UNION {
        {[start |-> i, id |-> SubSeq(s, a + Len(LitStart) + 1, b), after |-> c + 3] :
           c \in {c \in b..(Len(s) - 3) :
                    AllSpace(s, b, c) /\ LitAt(s, LitCommentClose, c)}} :
        b \in {b \in (a + Len(LitStart) + 1)..Len(s) :
                 AllIdChars(s, a + Len(LitStart), b)}} :
      a \in {a \in (i + 4)..(Len(s) - 1) :
               AllSpace(s, i + 4, a) /\ LitAt(s, LitStart, a)}} :
    i \in {i \in 0..(Len(s) - 1) : LitAt(s, LitCommentOpen, i)}}

\* The offsets after an end marker that begins at offset q and carries id.
EndMarkersAt(s, q, id) ==
  IF ~LitAt(s, LitCommentOpen, q) THEN {}
  ELSE UNION {
         {c + 3 : c \in {c \in (a + Len(LitEnd) + Len(id))..(Len(s) - 3) :
                          /\ AllSpace(s, a + Len(LitEnd) + Len(id), c)
                          /\ LitAt(s, LitCommentClose, c)}} :
         a \in {a \in (q + 4)..(Len(s) - 1) :
                  AllSpace(s, q + 4, a) /\ LitAt(s, LitEnd \o id, a)}}

\* Where end markers with the identifier of start marker m begin after m.
OwnEndsOf(s, m) == {q \in m.after..(Len(s) - 1) : EndMarkersAt(s, q, m.id) # {}}

\* The regions of s that run from a start marker to the nearest following
\* end marker with the same identifier.
RegionsOf(s) ==
  {[start |-> m.start, id |-> m.id,
    end |-> MaxOf(EndMarkersAt(s, MinOf(OwnEndsOf(s, m)), m.id))] :
     m \in {m \in StartMarkersOf(s) : OwnEndsOf(s, m) # {}}}

\* Of these regions, the ones a scan from left to right recognizes: the
\* first that begins at or after pos, then those after its end.
RECURSIVE RecognizedFrom(_, _)
RecognizedFrom(regions, pos) ==
  LET ahead == {r \in regions : r.start >= pos}
  IN  IF ahead = {} THEN <<>>
      ELSE LET r == CHOOSE r \in ahead : \A o \in ahead : r.start <= o.start
           IN  <<r>> \o RecognizedFrom(regions, r.end)

\* The text of start marker m occurs in s.
MarkerStays(doc, m, s) ==
  \E j \in 0..Len(s) : LitAt(s, SubSeq(doc, m.start + 1, m.after), j)

\* C6, as claimed: a start marker that no end marker with its identifier
\* follows is not replaced: its text is in the result of restore_svgs.
OrphanStartStaysOriginal ==
  pc = "restored_loaded" =>
    \A m \in StartMarkersOf(modified_html) :
      OwnEndsOf(modified_html, m) = {} => MarkerStays(modified_html, m, restored_html)

\* C6 (matching identifiers), amended: restore_svgs scans from left to
\* right and recognizes a region from a start marker to the nearest following
\* end marker with the same identifier, resuming after it; each recognized
\* region whose identifier is in the archive is replaced by the recorded
\* content, the others are warned about, all text outside the recognized
\* regions is returned unchanged, and a start marker outside every
\* recognized region that no end marker with its identifier follows stays.
MatchingIdsOnly ==
  pc = "restored_loaded" =>
    LET regions == RecognizedFrom(RegionsOf(modified_html), 0)
        known(id) == \E n \in 1..Len(archive) : archive[n].id = id
        spans == [k \in 1..Len(regions) |->
                    [original_position |-> [start |-> regions[k].start,
                                            end |-> regions[k].end]]]
        pieces == [k \in 1..Len(regions) |->
                     IF known(regions[k].id)
                     THEN archive[CHOOSE n \in 1..Len(archive) :
                                    archive[n].id = regions[k].id].svg_content
                     ELSE SubSeq(modified_html, regions[k].start + 1, regions[k].end)]
        unknown == SelectSeq(regions, LAMBDA r : ~known(r.id))
    IN  /\ restored_html = Assemble(modified_html, spans, pieces)
        /\ warnings = [k \in 1..Len(unknown) |-> unknown[k].id]
        /\ \A m \in StartMarkersOf(modified_html) :
             (/\ OwnEndsOf(modified_html, m) = {}
              /\ \A k \in 1..Len(regions) :
                   m.start < regions[k].start \/ m.start >= regions[k].end)
               => MarkerStays(modified_html, m, restored_html)

\* C6 witness: a start marker followed only by the end marker of the other
\* identifier, both identifiers in the archive, and nothing replaced.
MatchingIdsWitness ==
  /\ pc = "restored_loaded"
  /\ archive = <<RecordA, RecordB>>
  /\ modified_html = MarkStartA \o FragText \o MarkEndB
  /\ restored_html = modified_html
  /\ warnings = <<>>

====
